---------------------------- MODULE Spec2Model ----------------------------
(***************************************************************************)
(* Model of eve-pathologist: the ESI collaborator (src/esi/mod.rs) and the *)
(* Universe index (src/models/mod.rs).                                     *)
(*                                                                         *)
(* Three specifications share one set of variables:                        *)
(*   Spec       one run of Universe::fetch_universe against an arbitrary   *)
(*              server (every response is chosen by the environment);      *)
(*   LiveSpec   the same run, every blocking request eventually returning; *)
(*   IndexSpec  Universe::new() followed by any sequence of                *)
(*              fill_system_info / get_system_by_name / get_system_by_id,  *)
(*              as the unit tests of src/models/mod.rs drive the index.    *)
(***************************************************************************)
EXTENDS Integers, Sequences, FiniteSets, TLC

(***************************************************************************)
(* Bounds of the model.                                                    *)
(***************************************************************************)
\* longest id list a response body may carry
MaxIds == 2
\* longest sequence of fill_system_info calls explored by IndexSpec
MaxInserts == 3

(***************************************************************************)
(* Data: models::System, HTTP responses, errors.                           *)
(***************************************************************************)
\* The ids systems carry: the first id of the ESI list and Amygnon's
\* (esi::test::fetch_all_ids_test, models::test::AMY_ID), renumbered 1 and 2.
SystemIds == {1, 2}

Names == {"Amygnon", "PC9-AY"}

\* models::System, reduced to the two fields the index reads.
System == [system_id : SystemIds, name : Names]

\* hyper::status::StatusCode values the server may answer with.
Statuses == {200, 204, 404}

\* StatusCode::Ok
StatusOk == 200

\* StatusCode::is_success: the 2xx class.
is_success(status) == status >= 200 /\ status < 300

RECURSIVE SeqsUpTo(_, _)
\* all sequences over S of length at most n
SeqsUpTo(S, n) ==
    IF n = 0 THEN {<<>>}
    ELSE LET shorter == SeqsUpTo(S, n - 1)
         IN  shorter \cup {Append(s, x) : s \in {t \in shorter : Len(t) = n - 1}, x \in S}

\* A response body (Vec<u8>), by what the two readers of it can observe:
\*   utf8   whether String::from_utf8 accepts the bytes;
\*   kind   what serde_json finds in them: a JSON array of unsigned integers,
\*          a JSON object with every field of System, a JSON object lacking
\*          a required field, or no such document;
\*   ids    the elements of the array (kind = "array");
\*   sys    the System the object describes (kind = "object").
\* Bytes that are not UTF-8 are never a JSON document.
Body ==
    [utf8 : {TRUE}, kind : {"array"}, ids : SeqsUpTo(SystemIds, MaxIds), sys : {<<>>}]
    \cup [utf8 : {TRUE}, kind : {"object"}, ids : {<<>>}, sys : {<<s>> : s \in System}]
    \cup [utf8 : {TRUE}, kind : {"partial_object"}, ids : {<<>>}, sys : {<<>>}]
    \cup [utf8 : BOOLEAN, kind : {"garbage"}, ids : {<<>>}, sys : {<<>>}]

\* What esi::get_request followed by read_to_end yields: a response with a
\* status and a fully read body (io = FALSE), or an I/O failure of send() or
\* of read_to_end (io = TRUE).
IoFailure == [io |-> TRUE, status |-> 0, body |-> <<>>]

Response == [io : {FALSE}, status : Statuses, body : {<<b>> : b \in Body}] \cup {IoFailure}

\* Box<Error> values: hyper / std::io errors, serde_json errors, and
\* esi::HttpError::BadStatusCode(status, text).
IoError == [type |-> "Io", status |-> 0, text |-> <<>>]

JsonError == [type |-> "Json", status |-> 0, text |-> <<>>]

BadStatusCode(status, text) == [type |-> "BadStatusCode", status |-> status, text |-> <<text>>]

\* Outcomes of a call: Ok(value), Err(error), or a panic unwinding the caller.
\* diag is what the call wrote to stderr.
OkIds(ids) == [tag |-> "Ok", ids |-> ids, sys |-> <<>>, err |-> <<>>, diag |-> <<>>]

OkSystem(s) == [tag |-> "Ok", ids |-> <<>>, sys |-> <<s>>, err |-> <<>>, diag |-> <<>>]

Err(e, diag) == [tag |-> "Err", ids |-> <<>>, sys |-> <<>>, err |-> <<e>>, diag |-> diag]

Panic(diag) == [tag |-> "Panic", ids |-> <<>>, sys |-> <<>>, err |-> <<>>, diag |-> diag]

NoCall == [tag |-> "None", ids |-> <<>>, sys |-> <<>>, err |-> <<>>, diag |-> <<>>]

(***************************************************************************)
(* models::System decoders.                                                *)
(***************************************************************************)
\* System::parse_ids: serde_json::from_slice::<Vec<usize>>
parse_ids(body) ==
    IF body.kind = "array" THEN OkIds(body.ids) ELSE Err(JsonError, <<>>)

\* System::parse: serde_json::from_slice::<System>
parse(body) ==
    IF body.kind = "object" THEN OkSystem(body.sys[1]) ELSE Err(JsonError, <<>>)

\* String::from_utf8(body).unwrap() followed by Err(Box::new(BadStatusCode)):
\* unwrap panics when the bytes are not UTF-8.
bad_status(status, body, diag) ==
    IF body.utf8 THEN Err(BadStatusCode(status, body), diag) ELSE Panic(diag)

(***************************************************************************)
(* esi::systems                                                            *)
(***************************************************************************)
\* esi::systems::fetch_all_ids, given what the GET yields.
fetch_all_ids(r) ==
    IF r.io THEN Err(IoError, <<>>)
    ELSE IF is_success(r.status) THEN parse_ids(r.body[1])
    ELSE bad_status(r.status, r.body[1], <<"Unable to download system ids from ESI">>)

\* esi::systems::fetch_system_info, given what the GET yields.
fetch_system_info(r, id) ==
    IF r.io THEN Err(IoError, <<>>)
    ELSE IF r.status = StatusOk THEN parse(r.body[1])
    ELSE bad_status(r.status, r.body[1],
                    <<"Unable to fetch information for system with id">>)


(***************************************************************************)
(* State.                                                                  *)
(***************************************************************************)
VARIABLES
    universe,       \* the Universe being built or queried
    heap,           \* the Rc<Box<System>> allocations made so far, in order;
                    \* a handle is an index into heap (one per Rc::new)
    pc,             \* position of the run
    ids_result,     \* fetch_universe: what fetch_all_ids(&client) evaluated to
    system_ids,     \* fetch_universe: the Vec<usize> of fetch_all_ids
    idx,            \* fetch_universe: position of into_iter() in system_ids
    system_result,  \* fetch_universe: the result handed to the for_each closure
    result,         \* fetch_universe: its return value
    stderr,         \* lines written by eprintln!
    log,            \* history: requests issued and outcomes handled, in order
    outcomes,       \* history: what each fetch_system_info call evaluated to
    call,           \* history: the last esi::systems call, its response and result
    lookup          \* the last get_system_by_* call and what it returned

vars == <<universe, heap, pc, ids_result, system_ids, idx, system_result, result, stderr,
          log, outcomes, call, lookup>>

(***************************************************************************)
(* models::Universe                                                        *)
(***************************************************************************)
\* HashMap::new()
EmptyMap == [k \in {} |-> 0]

\* Mutant of MapInsert: an entry already present is kept.
MapInsert_keep_first(map, key, value) ==
    [k \in (DOMAIN map) \cup {key} |-> IF k \in DOMAIN map THEN map[k] ELSE value]

\* HashMap::insert: the entry under key is added or replaced.
MapInsert(map, key, value) ==
    [k \in (DOMAIN map) \cup {key} |-> IF k = key THEN value ELSE map[k]]

\* Universe::new
new == [system_count |-> 0, systems_by_id |-> EmptyMap, systems_by_name |-> EmptyMap]

\* Mutants of fill_system_info.
\* The name index is not filled.
fill_system_info_no_name(u, system, system_rc) ==
    [system_count    |-> u.system_count + 1,
     systems_by_id   |-> MapInsert(u.systems_by_id, system.system_id, system_rc),
     systems_by_name |-> u.systems_by_name]

\* entry(id).or_insert(rc): an id already present keeps its entry.
fill_system_info_keep_first_id(u, system, system_rc) ==
    [system_count    |-> u.system_count + 1,
     systems_by_id   |-> IF system.system_id \in DOMAIN u.systems_by_id
                         THEN u.systems_by_id
                         ELSE MapInsert(u.systems_by_id, system.system_id, system_rc),
     systems_by_name |-> MapInsert(u.systems_by_name, system.name, system_rc)]

\* system_count counts new ids only.
fill_system_info_count_distinct(u, system, system_rc) ==
    [system_count    |-> IF system.system_id \in DOMAIN u.systems_by_id
                         THEN u.system_count
                         ELSE u.system_count + 1,
     systems_by_id   |-> MapInsert(u.systems_by_id, system.system_id, system_rc),
     systems_by_name |-> MapInsert(u.systems_by_name, system.name, system_rc)]

\* systems_by_id keyed by the running count instead of the system's id.
fill_system_info_key_by_count(u, system, system_rc) ==
    [system_count    |-> u.system_count + 1,
     systems_by_id   |-> MapInsert(u.systems_by_id, u.system_count + 1, system_rc),
     systems_by_name |-> MapInsert(u.systems_by_name, system.name, system_rc)]

\* Universe::fill_system_info on universe u, system_rc being the handle of the
\* Rc allocated for system (Rc::clone shares the allocation).
fill_system_info(u, system, system_rc) ==
    [system_count    |-> u.system_count + 1,
     systems_by_id   |-> MapInsert(u.systems_by_id, system.system_id, system_rc),
     systems_by_name |-> MapInsert(u.systems_by_name, system.name, system_rc)]

\* UniverseError
SystemNameNotFound(name) == [type |-> "SystemNameNotFound", name |-> <<name>>, id |-> <<>>]

SystemIdNotFound(id) == [type |-> "SystemIdNotFound", name |-> <<>>, id |-> <<id>>]

\* Result<&System, UniverseError>: Ok carries the handle of the referenced record.
Found(system_rc) == [ok |-> TRUE, ref |-> <<system_rc>>, err |-> <<>>]

NotFound(e) == [ok |-> FALSE, ref |-> <<>>, err |-> e]

\* Universe::get_system_by_name
get_system_by_name(u, name) ==
    IF name \in DOMAIN u.systems_by_name
    THEN Found(u.systems_by_name[name])
    ELSE NotFound(<<SystemNameNotFound(name)>>)

\* Mutant of get_system_by_id: the neighbouring key is looked up.
get_system_by_id_off_by_one(u, id) ==
    IF id - 1 \in DOMAIN u.systems_by_id
    THEN Found(u.systems_by_id[id - 1])
    ELSE NotFound(<<SystemIdNotFound(id)>>)

\* Universe::get_system_by_id
get_system_by_id(u, id) ==
    IF id \in DOMAIN u.systems_by_id
    THEN Found(u.systems_by_id[id])
    ELSE NotFound(<<SystemIdNotFound(id)>>)

NoResult == [tag |-> "None", universe |-> <<>>, err |-> <<>>]

NoLookup == [op |-> "none", name |-> <<>>, id |-> <<>>, res |-> NotFound(<<>>)]

NoCallMade == [op |-> "none", id |-> 0, response |-> IoFailure, res |-> NoCall]

(***************************************************************************)
(* Universe::fetch_universe, one action per blocking step.                 *)
(***************************************************************************)
\* let mut universe = Self::new(); the run is about to call fetch_all_ids.
Init ==
    /\ universe = new
    /\ heap = <<>>
    /\ pc = "fetch_ids"
    /\ ids_result = NoCall
    /\ system_ids = <<>>
    /\ idx = 1
    /\ system_result = NoCall
    /\ result = NoResult
    /\ stderr = <<>>
    /\ log = <<>>
    /\ outcomes = <<>>
    /\ call = NoCallMade
    /\ lookup = NoLookup

\* Mutant of try_err: the error is swallowed and an empty universe returned.
try_err_swallowed(res) == [tag |-> "Ok", universe |-> <<new>>, err |-> <<>>]

\* The `?` of fetch_all_ids(&client)?: an Err(e) is returned to the caller as is.
try_err(res) == [tag |-> "Err", universe |-> <<>>, err |-> res.err]

\* let system_ids = esi::systems::fetch_all_ids(&client)?;
FetchAllIds ==
    /\ pc = "fetch_ids"
    /\ \E r \in Response :
         LET res == fetch_all_ids(r) IN
         /\ call' = [op |-> "fetch_all_ids", id |-> 0, response |-> r, res |-> res]
         /\ log' = Append(log, [ev |-> "request_ids", id |-> 0])
         /\ stderr' = stderr \o res.diag
         /\ ids_result' = res
         /\ CASE res.tag = "Ok" ->
                   /\ system_ids' = res.ids
                   /\ pc' = "iter"
                   /\ result' = result
              [] res.tag = "Err" ->
                   /\ system_ids' = system_ids
                   /\ pc' = "returned"
                   /\ result' = try_err(res)
              [] OTHER ->
                   /\ system_ids' = system_ids
                   /\ pc' = "panicked"
                   /\ result' = result
    /\ UNCHANGED <<universe, heap, idx, system_result, outcomes, lookup>>

\* .map(|system_id| esi::systems::fetch_system_info(&client, system_id)):
\* for_each pulls the next element, which issues the request for it.
FetchSystemInfo ==
    /\ pc = "iter"
    /\ idx <= Len(system_ids)
    /\ \E r \in Response :
         LET id  == system_ids[idx]
             res == fetch_system_info(r, id) IN
         /\ call' = [op |-> "fetch_system_info", id |-> id, response |-> r, res |-> res]
         /\ log' = Append(log, [ev |-> "request_info", id |-> id])
         /\ stderr' = stderr \o res.diag
         /\ outcomes' = Append(outcomes, [id |-> id, tag |-> res.tag, sys |-> res.sys])
         /\ system_result' = res
         /\ pc' = IF res.tag = "Panic" THEN "panicked" ELSE "handle"
    /\ UNCHANGED <<universe, heap, ids_result, system_ids, idx, result, lookup>>

\* The for_each closure: match system_result { Ok(system) => ..., Err(error) => ... }
HandleSystemResult ==
    /\ pc = "handle"
    /\ IF system_result.tag = "Ok"
       THEN /\ heap' = Append(heap, system_result.sys[1])
            /\ universe' = fill_system_info(universe, system_result.sys[1], Len(heap) + 1)
            /\ log' = Append(log, [ev |-> "insert", id |-> system_ids[idx]])
            /\ stderr' = stderr
       ELSE /\ stderr' = Append(stderr, "Encountered the following error")
            /\ log' = Append(log, [ev |-> "diagnostic", id |-> system_ids[idx]])
            /\ UNCHANGED <<universe, heap>>
    /\ idx' = idx + 1
    /\ pc' = "iter"
    /\ UNCHANGED <<ids_result, system_ids, system_result, result, outcomes, call, lookup>>

\* Mutant of ReturnUniverse: the run returns without draining the iterator.
ReturnUniverse_early ==
    /\ pc = "iter"
    /\ result' = [tag |-> "Ok", universe |-> <<universe>>, err |-> <<>>]
    /\ pc' = "returned"
    /\ UNCHANGED <<universe, heap, ids_result, system_ids, idx, system_result, stderr, log,
                   outcomes, call, lookup>>

\* Ok(universe), once the iterator is exhausted.
ReturnUniverse ==
    /\ pc = "iter"
    /\ idx > Len(system_ids)
    /\ result' = [tag |-> "Ok", universe |-> <<universe>>, err |-> <<>>]
    /\ pc' = "returned"
    /\ UNCHANGED <<universe, heap, ids_result, system_ids, idx, system_result, stderr, log,
                   outcomes, call, lookup>>

Next == FetchAllIds \/ FetchSystemInfo \/ HandleSystemResult \/ ReturnUniverse

Spec == Init /\ [][Next]_vars

\* Every blocking request returns and the calling thread keeps running.
LiveSpec == Spec /\ WF_vars(Next)

(***************************************************************************)
(* The index driven directly, as the unit tests of src/models/mod.rs do:   *)
(* Universe::new(), then fill_system_info and the two lookups in any order.*)
(***************************************************************************)
\* Keys the lookups are tried with: every key a System can carry and one no
\* System carries (the tests use "Invalid").
LookupNames == Names \cup {"Invalid"}

LookupIds == SystemIds \cup {0}

\* let mut universe = Universe::new();
InitIndex ==
    /\ universe = new
    /\ heap = <<>>
    /\ pc = "index"
    /\ ids_result = NoCall
    /\ system_ids = <<>>
    /\ idx = 1
    /\ system_result = NoCall
    /\ result = NoResult
    /\ stderr = <<>>
    /\ log = <<>>
    /\ outcomes = <<>>
    /\ call = NoCallMade
    /\ lookup = NoLookup

\* universe.fill_system_info(system)
FillSystemInfo ==
    /\ pc = "index"
    /\ Len(heap) < MaxInserts
    /\ \E system \in System :
         /\ heap' = Append(heap, system)
         /\ universe' = fill_system_info(universe, system, Len(heap) + 1)
    /\ UNCHANGED <<pc, ids_result, system_ids, idx, system_result, result, stderr, log,
                   outcomes, call, lookup>>

\* universe.get_system_by_name(name)
GetSystemByName ==
    /\ pc = "index"
    /\ \E name \in LookupNames :
         lookup' = [op |-> "get_system_by_name", name |-> <<name>>, id |-> <<>>,
                    res |-> get_system_by_name(universe, name)]
    /\ UNCHANGED <<universe, heap, pc, ids_result, system_ids, idx, system_result, result,
                   stderr, log, outcomes, call>>

\* universe.get_system_by_id(id)
GetSystemById ==
    /\ pc = "index"
    /\ \E id \in LookupIds :
         lookup' = [op |-> "get_system_by_id", name |-> <<>>, id |-> <<id>>,
                    res |-> get_system_by_id(universe, id)]
    /\ UNCHANGED <<universe, heap, pc, ids_result, system_ids, idx, system_result, result,
                   stderr, log, outcomes, call>>

NextIndex == FillSystemInfo \/ GetSystemByName \/ GetSystemById

IndexSpec == InitIndex /\ [][NextIndex]_vars

(***************************************************************************)
(* Properties of a fetch_universe run (Spec, LiveSpec).                    *)
(***************************************************************************)
\* The run is over: fetch_universe returned, or a panic unwound it.
Ended == pc \in {"returned", "panicked"}

\* Ids of the detail requests issued so far, in order.
RequestedIds ==
    LET reqs == SelectSeq(log, LAMBDA e : e.ev = "request_info")
    IN  [i \in 1..Len(reqs) |-> reqs[i].id]

\* Positions of the detail fetches that succeeded, and the systems they returned.
SucceededAt == {i \in 1..Len(outcomes) : outcomes[i].tag = "Ok"}

Succeeded == {outcomes[i].sys[1] : i \in SucceededAt}

\* The index u resolves system s, by its id and by its name, to a record equal to s.
Holds(u, s) ==
    /\ s.system_id \in DOMAIN u.systems_by_id
    /\ heap[u.systems_by_id[s.system_id]] = s
    /\ s.name \in DOMAIN u.systems_by_name
    /\ heap[u.systems_by_name[s.name]] = s

\* The records the index u resolves to.
Stored(u) ==
    {heap[u.systems_by_id[k]] : k \in DOMAIN u.systems_by_id}
        \cup {heap[u.systems_by_name[n]] : n \in DOMAIN u.systems_by_name}

\* C1: failure isolation. When fetch_all_ids succeeded and the run is over,
\* fetch_universe returned Ok, a detail request was issued for every id of the
\* list, and the returned index holds exactly the systems whose detail fetch
\* succeeded, system_count being their number.
C1_FailureIsolation ==
    (ids_result.tag = "Ok" /\ Ended) =>
        /\ result.tag = "Ok"
        /\ RequestedIds = system_ids
        /\ result.universe[1].system_count = Cardinality(SucceededAt)
        /\ \A s \in Succeeded : Holds(result.universe[1], s)
        /\ Stored(result.universe[1]) \subseteq Succeeded

AllSucceededDistinct ==
    /\ pc = "returned"
    /\ result.tag = "Ok"
    /\ Len(outcomes) = Len(system_ids)
    /\ SucceededAt = 1..Len(outcomes)
    /\ \A i, j \in 1..Len(outcomes) :
          i # j => /\ outcomes[i].sys[1].system_id # outcomes[j].sys[1].system_id
                   /\ outcomes[i].sys[1].name # outcomes[j].sys[1].name

\* C3: N successful detail fetches without id or name collisions give an index
\* with system_count = N whose key sets are exactly the returned ids and the
\* returned names, each key resolving to the system that carries it.
C3_AllSucceedIndex ==
    AllSucceededDistinct =>
        /\ result.universe[1].system_count = Len(system_ids)
        /\ DOMAIN result.universe[1].systems_by_id = {s.system_id : s \in Succeeded}
        /\ DOMAIN result.universe[1].systems_by_name = {s.name : s \in Succeeded}
        /\ \A s \in Succeeded : Holds(result.universe[1], s)

\* Witness of C3: two ids, both fetched, two different systems.
C3_Witness == AllSucceededDistinct /\ Len(system_ids) = 2

\* C7: for a response that arrived, the call is Err(BadStatusCode(status, body
\* text)) exactly when the status is not a success status, and for a success
\* status it is what the decoder makes of the body.
C7_StatusDecides ==
    (call.op # "none" /\ ~call.response.io) =>
        IF is_success(call.response.status)
        THEN /\ call.res.tag # "Panic"
             /\ ~(call.res.tag = "Err" /\ call.res.err[1].type = "BadStatusCode")
             /\ call.res = (IF call.op = "fetch_all_ids"
                            THEN parse_ids(call.response.body[1])
                            ELSE parse(call.response.body[1]))
        ELSE /\ call.res.tag = "Err"
             /\ call.res.err = <<BadStatusCode(call.response.status, call.response.body[1])>>

\* The requests and the handling of their outcomes happen in this order: the
\* id-list request first and once; then, for each position j of the id list
\* in turn, the detail request for system_ids[j] followed by the handling of
\* its outcome (an insert when it succeeded, a diagnostic when it failed);
\* Ok is returned only when every id has been through both, and the run is
\* cut short only by a call that panicked instead of returning.
C8_Order ==
    /\ Len(log) >= 1 => log[1].ev = "request_ids"
    /\ \A i \in 2..Len(log) :
          /\ ids_result.tag = "Ok"
          /\ i \div 2 <= Len(system_ids)
          /\ log[i].id = system_ids[i \div 2]
          /\ i \div 2 <= Len(outcomes)
          /\ log[i].ev = (IF i % 2 = 0 THEN "request_info"
                          ELSE IF outcomes[i \div 2].tag = "Ok" THEN "insert"
                          ELSE "diagnostic")
    /\ Len(outcomes) = Len(log) \div 2
    /\ result.tag = "Ok" => Len(log) = 1 + 2 * Len(system_ids)
    /\ pc = "panicked" => call.res.tag = "Panic"

\* C8: the order above holds throughout, and once the id list is there the
\* index is eventually returned, unless a call panics instead of returning.
C8_SequentialRun ==
    /\ []C8_Order
    /\ (ids_result.tag = "Ok") ~> (result.tag = "Ok" \/ pc = "panicked")

\* Witness of C8: a run over two ids, one inserted and one reported, returned.
C8_Witness ==
    /\ result.tag = "Ok"
    /\ Len(system_ids) = 2
    /\ Len(log) = 5
    /\ log[3].ev = "insert"
    /\ log[5].ev = "diagnostic"

(***************************************************************************)
(* Properties of the index (IndexSpec).  heap lists the systems inserted   *)
(* so far, one Rc per fill_system_info call; a handle h names the instance *)
(* allocated by the h-th call.                                             *)
(***************************************************************************)
Handles == 1..Len(heap)

\* Both maps resolve the keys of the system inserted as instance h to h itself.
SharedInstance(h) ==
    /\ get_system_by_id(universe, heap[h].system_id) = Found(h)
    /\ get_system_by_name(universe, heap[h].name) = Found(h)

\* The last instance inserted with the same id as h, and with the same name.
LastWithId(h) ==
    CHOOSE g \in Handles :
        /\ heap[g].system_id = heap[h].system_id
        /\ \A f \in Handles : heap[f].system_id = heap[h].system_id => f <= g

LastWithName(h) ==
    CHOOSE g \in Handles :
        /\ heap[g].name = heap[h].name
        /\ \A f \in Handles : heap[f].name = heap[h].name => f <= g

\* Some earlier insert used the same id, or the same name, as a later one.
IdCollision == \E g, h \in Handles : g < h /\ heap[g].system_id = heap[h].system_id

NameCollision == \E g, h \in Handles : g < h /\ heap[g].name = heap[h].name

\* C4 as stated: after any sequence of inserts, every inserted system is
\* resolved by both maps, under its id and under its name, to its own instance.
C4_EveryInsertedShared == \A h \in Handles : SharedInstance(h)

\* C4 amended: each map resolves an inserted system's key to the instance of
\* the last insert that carried that key; so both maps resolve to the system's
\* own instance whenever no later insert reused its id or its name.
C4_LastInsertedShared ==
    \A h \in Handles :
        /\ get_system_by_id(universe, heap[h].system_id) = Found(LastWithId(h))
        /\ get_system_by_name(universe, heap[h].name) = Found(LastWithName(h))
        /\ (LastWithId(h) = h /\ LastWithName(h) = h) => SharedInstance(h)

\* Witness of C4: after a name collision the earlier system is still reached
\* by id, its name resolves to the later instance, and a third system that
\* nothing collided with is shared by both maps.
C4_Witness ==
    /\ Len(heap) = 3
    /\ heap[1].name = heap[2].name
    /\ heap[1].system_id # heap[2].system_id
    /\ universe.systems_by_id[heap[1].system_id] = 1
    /\ universe.systems_by_name[heap[1].name] = 2
    /\ heap[3].name # heap[1].name
    /\ SharedInstance(3)

\* C5: system_count is the number of inserts performed (0 and two empty maps
\* at the start), so after a collision it exceeds the size of the map in
\* which the key collided.
C5_CountsInserts ==
    /\ universe.system_count = Len(heap)
    /\ Len(heap) = 0 => universe = new
    /\ IdCollision => universe.system_count > Cardinality(DOMAIN universe.systems_by_id)
    /\ NameCollision => universe.system_count > Cardinality(DOMAIN universe.systems_by_name)

\* Witness of C5: three inserts, one id used twice: the count is 3, the id map has 2 keys.
C5_Witness ==
    /\ IdCollision
    /\ universe.system_count = 3
    /\ Cardinality(DOMAIN universe.systems_by_id) = 2

\* What a lookup l on index u must have returned.
LookupPost(u, l) ==
    IF l.op = "get_system_by_id"
    THEN IF l.id[1] \in DOMAIN u.systems_by_id
         THEN l.res.ok /\ l.res.ref = <<u.systems_by_id[l.id[1]]>>
         ELSE /\ ~l.res.ok
              /\ l.res.err = <<[type |-> "SystemIdNotFound", name |-> <<>>, id |-> l.id]>>
    ELSE IF l.name[1] \in DOMAIN u.systems_by_name
         THEN l.res.ok /\ l.res.ref = <<u.systems_by_name[l.name[1]]>>
         ELSE /\ ~l.res.ok
              /\ l.res.err = <<[type |-> "SystemNameNotFound", name |-> l.name, id |-> <<>>]>>

\* C6: a lookup succeeds exactly when its key is a key of its map and then
\* returns the record stored under it; otherwise it fails with the not-found
\* error of its kind carrying the key; and it leaves the index as it was.
C6_Lookups ==
    [][lookup' # lookup =>
          /\ universe' = universe
          /\ heap' = heap
          /\ LookupPost(universe, lookup')]_vars

\* Witness of C6: on an index of two systems, a lookup by an id no system has failed.
C6_Witness ==
    /\ Len(heap) = 2
    /\ lookup.op = "get_system_by_id"
    /\ lookup.id[1] \notin DOMAIN universe.systems_by_id
    /\ ~lookup.res.ok

\* C9: right after fill_system_info(s), both lookups with the keys of s return
\* the one instance just stored, whatever was under those keys before, and
\* every other key of either map resolves as it did.
C9_InsertLastWriterWins ==
    [][heap' # heap =>
          LET s == heap'[Len(heap')] IN
          /\ get_system_by_id(universe', s.system_id) = Found(Len(heap'))
          /\ get_system_by_name(universe', s.name) = Found(Len(heap'))
          /\ DOMAIN universe'.systems_by_id = DOMAIN universe.systems_by_id \cup {s.system_id}
          /\ DOMAIN universe'.systems_by_name = DOMAIN universe.systems_by_name \cup {s.name}
          /\ \A k \in DOMAIN universe.systems_by_id \ {s.system_id} :
                universe'.systems_by_id[k] = universe.systems_by_id[k]
          /\ \A n \in DOMAIN universe.systems_by_name \ {s.name} :
                universe'.systems_by_name[n] = universe.systems_by_name[n]]_vars

\* Witness of C9: the third insert replaced the entries of the first under its
\* id and its name, and the second system's entries are still in place.
C9_Witness ==
    /\ Len(heap) = 3
    /\ heap[3] = heap[1]
    /\ heap[2].system_id # heap[1].system_id
    /\ heap[2].name # heap[1].name
    /\ universe.systems_by_id[heap[1].system_id] = 3
    /\ universe.systems_by_name[heap[1].name] = 3
    /\ SharedInstance(2)

\* C10: every entry of systems_by_id sits under the id of the record it
\* resolves to, every entry of systems_by_name under its name, and neither map
\* has more entries than system_count.
C10_KeyConsistency ==
    /\ \A k \in DOMAIN universe.systems_by_id :
          /\ universe.systems_by_id[k] \in Handles
          /\ heap[universe.systems_by_id[k]].system_id = k
    /\ \A n \in DOMAIN universe.systems_by_name :
          /\ universe.systems_by_name[n] \in Handles
          /\ heap[universe.systems_by_name[n]].name = n
    /\ Cardinality(DOMAIN universe.systems_by_id) <= universe.system_count
    /\ Cardinality(DOMAIN universe.systems_by_name) <= universe.system_count

\* Witness of C10: colliding inserts left the two maps resolving one id and
\* one name to different instances, each still under its own key.
C10_Witness ==
    /\ IdCollision
    /\ NameCollision
    /\ \E k \in DOMAIN universe.systems_by_id :
          universe.systems_by_name[heap[universe.systems_by_id[k]].name]
              # universe.systems_by_id[k]

=============================================================================
